---- MODULE Spec2Model ----
(***************************************************************************)
(* Model of update_textures.py: the texture matching cascade               *)
(* (find_matching_texture) and the catalog updater (update_blocks_json,    *)
(* main).  Python str values are TLA+ strings; Len, \o and SubSeq are the  *)
(* only primitives used on them.                                           *)
(***************************************************************************)
EXTENDS Integers, Sequences, FiniteSets, TLC

VARIABLES
    \* ---- one call of find_matching_texture (MatchSpec)
    arg_block_name,      \* the block_name argument
    arg_textures,        \* the available_textures argument
    ret,                 \* the returned filename
    mpc,                 \* "call" before the call, "returned" after it
    \* ---- the process running main() (Spec)
    files_txt,           \* files.txt on disk: whether it exists, and its lines
    blocks_json,         \* blocks.json on disk
    run_start_json,      \* blocks.json as it was when the current run started
    pc,                  \* position of the current run of main()
    run,                 \* number of the current run of the script
    available_textures,  \* the set built by load_available_textures
    order,               \* iteration order of that set in this process
    blocks_data,         \* the list loaded by json.load
    idx,                 \* index of the next block of the for loop
    stats                \* the four counters

mvars == <<arg_block_name, arg_textures, ret, mpc>>
uvars == <<files_txt, blocks_json, run_start_json, pc, run, available_textures,
           order, blocks_data, idx, stats>>
vars == <<arg_block_name, arg_textures, ret, mpc,
          files_txt, blocks_json, run_start_json, pc, run, available_textures,
          order, blocks_data, idx, stats>>

----------------------------------------------------------------------------
\* Bounds

MaxCands == 2       \* largest candidate set given to one call of the matcher
MaxRecords == 3     \* longest record collection in blocks.json
MaxRuns == 2        \* successive runs of the script

----------------------------------------------------------------------------
\* Python str primitives

Range(seq) == {seq[k] : k \in 1..Len(seq)}

CharAt(s, i) == SubSeq(s, i, i)

\* sub in s
Contains(sub, s) ==
    \E i \in 1..(Len(s) - Len(sub) + 1) : SubSeq(s, i, i + Len(sub) - 1) = sub

\* s.endswith(suffix)
EndsWith(s, suffix) ==
    /\ Len(s) >= Len(suffix)
    /\ SubSeq(s, Len(s) - Len(suffix) + 1, Len(s)) = suffix

LowerChar(c) ==
    CASE c = "A" -> "a" [] c = "B" -> "b" [] c = "C" -> "c" [] c = "D" -> "d"
      [] c = "E" -> "e" [] c = "F" -> "f" [] c = "G" -> "g" [] c = "H" -> "h"
      [] c = "I" -> "i" [] c = "J" -> "j" [] c = "K" -> "k" [] c = "L" -> "l"
      [] c = "M" -> "m" [] c = "N" -> "n" [] c = "O" -> "o" [] c = "P" -> "p"
      [] c = "Q" -> "q" [] c = "R" -> "r" [] c = "S" -> "s" [] c = "T" -> "t"
      [] c = "U" -> "u" [] c = "V" -> "v" [] c = "W" -> "w" [] c = "X" -> "x"
      [] c = "Y" -> "y" [] c = "Z" -> "z" [] OTHER -> c

RECURSIVE lower(_)
\* s.lower()
lower(s) ==
    IF Len(s) = 0 THEN ""
    ELSE LowerChar(CharAt(s, 1)) \o lower(SubSeq(s, 2, Len(s)))

RECURSIVE replace(_, _, _)
\* s.replace(old, new) for a non-empty old: every non-overlapping occurrence,
\* scanning left to right
replace(s, old, new) ==
    IF Len(s) < Len(old) THEN s
    ELSE IF SubSeq(s, 1, Len(old)) = old
         THEN new \o replace(SubSeq(s, Len(old) + 1, Len(s)), old, new)
         ELSE CharAt(s, 1) \o replace(SubSeq(s, 2, Len(s)), old, new)

RECURSIVE SplitFrom(_, _, _)
SplitFrom(s, sep, cur) ==
    IF Len(s) = 0 THEN <<cur>>
    ELSE IF CharAt(s, 1) = sep
         THEN <<cur>> \o SplitFrom(SubSeq(s, 2, Len(s)), sep, "")
         ELSE SplitFrom(SubSeq(s, 2, Len(s)), sep, cur \o CharAt(s, 1))

\* s.split(sep) for a one-character sep: a sequence of strings
split(s, sep) == SplitFrom(s, sep, "")

RECURSIVE join(_, _)
\* sep.join(parts)
join(sep, parts) ==
    IF Len(parts) = 0 THEN ""
    ELSE IF Len(parts) = 1 THEN parts[1]
    ELSE parts[1] \o sep \o join(sep, Tail(parts))

RECURSIVE lstrip(_)
lstrip(s) ==
    IF Len(s) > 0 /\ CharAt(s, 1) = " " THEN lstrip(SubSeq(s, 2, Len(s))) ELSE s

RECURSIVE rstrip(_)
rstrip(s) ==
    IF Len(s) > 0 /\ CharAt(s, Len(s)) = " "
    THEN rstrip(SubSeq(s, 1, Len(s) - 1)) ELSE s

\* s.strip()
strip(s) == lstrip(rstrip(s))

----------------------------------------------------------------------------
\* The matcher

MissingTexture == "missing_texture.png"

normalize_name(name) ==
    replace(replace(replace(lower(name), "_", ""), "-", ""), " ", "")

\* variant: the first constructed form is returned without the membership test
FirstIn_unchecked(seq, set) == seq[1]

\* the first element of seq that is in set (seq has one)
FirstIn(seq, set) ==
    seq[CHOOSE k \in 1..Len(seq) :
            seq[k] \in set /\ \A m \in 1..(k - 1) : seq[m] \notin set]

AnyIn(seq, set) == \E k \in 1..Len(seq) : seq[k] \in set

\* variant: planks_ is tried before stone_
variations_planks_first(block_name) ==
    << "planks_" \o block_name \o ".png",
       "stone_" \o block_name \o ".png",
       "log_" \o block_name \o ".png",
       "leaves_" \o block_name \o ".png",
       "wool_colored_" \o block_name \o ".png",
       "glass_" \o block_name \o ".png",
       "concrete_" \o block_name \o ".png",
       "hardened_clay_stained_" \o block_name \o ".png",
       "glazed_terracotta_" \o block_name \o ".png" >>

\* the list `variations` for a lower-cased block name
variations(block_name) ==
    << "stone_" \o block_name \o ".png",
       "planks_" \o block_name \o ".png",
       "log_" \o block_name \o ".png",
       "leaves_" \o block_name \o ".png",
       "wool_colored_" \o block_name \o ".png",
       "glass_" \o block_name \o ".png",
       "concrete_" \o block_name \o ".png",
       "hardened_clay_stained_" \o block_name \o ".png",
       "glazed_terracotta_" \o block_name \o ".png" >>

\* the list `smooth_variations` for a lower-cased block name
smooth_variations(block_name) ==
    LET base_name == replace(block_name, "polished_", "")
    IN << "stone_" \o base_name \o "_smooth.png",
          base_name \o "_smooth.png",
          "polished_" \o base_name \o ".png" >>

\* variant: the stone_ form is tested before the bare form
test_variations_stone_first(part_combo) ==
    << "stone_" \o part_combo \o ".png",
       part_combo \o ".png",
       "planks_" \o part_combo \o ".png" >>

\* the list `test_variations` for one part_combo
test_variations(part_combo) ==
    << part_combo \o ".png",
       "stone_" \o part_combo \o ".png",
       "planks_" \o part_combo \o ".png" >>

RECURSIVE combo_scan(_, _, _)
\* the forms tested by the two nested loops from (i, j) on, in the order the
\* loops test them; i is 0-based, j is the exclusive end as in name_parts[i:j]
combo_scan(name_parts, i, j) ==
    IF i >= Len(name_parts) THEN <<>>
    ELSE IF j > Len(name_parts) THEN combo_scan(name_parts, i + 1, i + 2)
    ELSE test_variations(join("_", SubSeq(name_parts, i + 1, j)))
            \o combo_scan(name_parts, i, j + 1)

\* fuzzy tier: does the texture get appended to best_matches
fuzzy_qualifies(block_name, texture) ==
    LET normalized_block == normalize_name(block_name)
        normalized_texture == normalize_name(replace(texture, ".png", ""))
        block_parts == IF Contains("_", block_name)
                       THEN split(normalized_block, "_")
                       ELSE <<normalized_block>>
    IN \E k \in 1..Len(block_parts) :
          Len(block_parts[k]) > 2 /\ Contains(block_parts[k], normalized_texture)

\* best_matches: the qualifying textures in the set's iteration order
best_matches(block_name, iter_order) ==
    SelectSeq(iter_order, LAMBDA t : fuzzy_qualifies(block_name, t))

\* min(seq, key=len): the first element of minimal length
min_by_len(seq) ==
    seq[CHOOSE k \in 1..Len(seq) :
            /\ \A m \in 1..Len(seq) : Len(seq[k]) <= Len(seq[m])
            /\ \A m \in 1..(k - 1) : Len(seq[m]) > Len(seq[k])]

\* lines 78-98: the fuzzy tier and the final return
fuzzy_match(block_name, textures, iter_order) ==
    LET best == best_matches(block_name, iter_order)
    IN IF Len(best) > 0 THEN min_by_len(best) ELSE MissingTexture

\* lines 62-98: the sub-phrase tier, then the rest
from_part_combos(block_name, textures, iter_order) ==
    LET name_parts == split(block_name, "_")
        combos == combo_scan(name_parts, 0, 1)
    IN IF Len(name_parts) > 1 /\ AnyIn(combos, textures)
       THEN FirstIn(combos, textures)
       ELSE fuzzy_match(block_name, textures, iter_order)

\* lines 50-98: the "polished" special case, then the rest
from_polished(block_name, textures, iter_order) ==
    IF Contains("polished", block_name)
       /\ AnyIn(smooth_variations(block_name), textures)
    THEN FirstIn(smooth_variations(block_name), textures)
    ELSE from_part_combos(block_name, textures, iter_order)

\* lines 33-98: the prefixed variations, then the rest
from_variations(block_name, textures, iter_order) ==
    IF AnyIn(variations(block_name), textures)
    THEN FirstIn(variations(block_name), textures)
    ELSE from_polished(block_name, textures, iter_order)

\* variant: the exact tier is tried after the prefixed variations
find_matching_texture_exact_late(raw_block_name, textures, iter_order) ==
    LET block_name == lower(raw_block_name)
        exact_match == block_name \o ".png"
    IN IF AnyIn(variations(block_name), textures)
       THEN FirstIn(variations(block_name), textures)
       ELSE IF exact_match \in textures THEN exact_match
       ELSE from_polished(block_name, textures, iter_order)

\* find_matching_texture; iter_order is the order in which this process
\* iterates over the set textures (a set of str has no order of its own)
find_matching_texture(raw_block_name, textures, iter_order) ==
    LET block_name == lower(raw_block_name)
        exact_match == block_name \o ".png"
    IN IF exact_match \in textures THEN exact_match
       ELSE from_variations(block_name, textures, iter_order)

\* the iteration orders a set can have
Orders(S) == {f \in [1..Cardinality(S) -> S] : Range(f) = S}

----------------------------------------------------------------------------
\* Inputs of the matcher

BlockNames ==
    { "andesite", "Andesite", "polished_andesite", "andesite_polished",
      "oak_log", "oak_wood", "dark_oak_log", "ab", "",
      "texture", "missing_texture" }

TexturePool ==
    { "andesite.png", "stone_andesite.png", "planks_andesite.png",
      "log_andesite.png", "leaves_andesite.png", "wool_colored_andesite.png",
      "glass_andesite.png", "concrete_andesite.png",
      "hardened_clay_stained_andesite.png", "glazed_terracotta_andesite.png",
      "stone_andesite_smooth.png", "andesite_smooth.png",
      "polished_andesite.png", "polished_andesite_polished.png",
      "dark_oak.png", "oak.png", "stone_oak.png",
      "planks_oak.png", "oak_log.png", "log.png", "oak_log_top.png",
      "oak_log_end.png", "Oak-Log.png", "abc.png",
      "missing_texture.png", "another_texture.png" }

RECURSIVE SetsUpTo(_, _)
\* the subsets of Pool with at most n elements
SetsUpTo(Pool, n) ==
    IF n = 0 THEN {{}}
    ELSE LET smaller == SetsUpTo(Pool, n - 1)
         IN smaller \union {S \union {t} : S \in smaller, t \in Pool}

CandidateSets == SetsUpTo(TexturePool, MaxCands)

\* the process is not running: the values the updater's variables keep
\* while a single call of the matcher is examined
UpdaterIdle ==
    /\ files_txt = [exists |-> FALSE, lines |-> <<>>]
    /\ blocks_json = [state |-> "missing", recs |-> <<>>]
    /\ run_start_json = [state |-> "missing", recs |-> <<>>]
    /\ pc = "idle"
    /\ run = 0
    /\ available_textures = {}
    /\ order = <<>>
    /\ blocks_data = <<>>
    /\ idx = 0
    /\ stats = [total_processed |-> 0, missing_found |-> 0,
                updated |-> 0, still_missing |-> 0]

MatchInit ==
    /\ arg_block_name \in BlockNames
    /\ arg_textures \in CandidateSets
    /\ ret = ""
    /\ mpc = "call"
    /\ UpdaterIdle

\* one call find_matching_texture(arg_block_name, arg_textures)
Call ==
    /\ mpc = "call"
    /\ \E o \in Orders(arg_textures) :
          ret' = find_matching_texture(arg_block_name, arg_textures, o)
    /\ mpc' = "returned"
    /\ UNCHANGED <<arg_block_name, arg_textures>>
    /\ UNCHANGED uvars

MatchNext == Call

MatchSpec == MatchInit /\ [][MatchNext]_vars

----------------------------------------------------------------------------
\* What each tier of the cascade can hit, for the call under examination

Returned == mpc = "returned"

CalledName == lower(arg_block_name)

ExactForm == CalledName \o ".png"

Prefixes ==
    << "stone_", "planks_", "log_", "leaves_", "wool_colored_", "glass_",
       "concrete_", "hardened_clay_stained_", "glazed_terracotta_" >>

PrefixedForm(k) == Prefixes[k] \o CalledName \o ".png"

ExactHit == ExactForm \in arg_textures

PrefixHit == \E k \in 1..Len(Prefixes) : PrefixedForm(k) \in arg_textures

\* the base name the code derives for the polished tier
CodeBase == replace(CalledName, "polished_", "")

PolishedForms(base) ==
    << "stone_" \o base \o "_smooth.png", base \o "_smooth.png",
       "polished_" \o base \o ".png" >>

PolishedHit ==
    /\ Contains("polished", CalledName)
    /\ \E k \in 1..3 : PolishedForms(CodeBase)[k] \in arg_textures

CalledParts == split(CalledName, "_")

NParts == Len(CalledParts)

SubForms == <<"", "stone_", "planks_">>

\* the form f of the sub-range of parts a..b (1-based, inclusive)
SubPhraseForm(a, b, f) ==
    SubForms[f] \o join("_", SubSeq(CalledParts, a, b)) \o ".png"

SubPhraseTriples ==
    {t \in (1..NParts) \X (1..NParts) \X (1..3) :
        t[1] <= t[2] /\ SubPhraseForm(t[1], t[2], t[3]) \in arg_textures}

SubPhraseHit == NParts > 1 /\ SubPhraseTriples # {}

\* position of a triple in the enumeration: start ascending, then end
\* ascending, then bare, stone_, planks_
TripleRank(t) == (t[1] * (NParts + 1) + t[2]) * 4 + t[3]

StrictMiss == ~ExactHit /\ ~PrefixHit /\ ~PolishedHit /\ ~SubPhraseHit

\* candidates the fuzzy tier accepts: the whole normalized name, longer than
\* two characters, occurs in the normalized candidate without its extension
FuzzyHits ==
    {t \in arg_textures :
        /\ Len(normalize_name(CalledName)) > 2
        /\ Contains(normalize_name(CalledName),
                    normalize_name(replace(t, ".png", "")))}

ShortestOf(S) == {t \in S : \A u \in S : Len(t) <= Len(u)}

----------------------------------------------------------------------------
\* Claims about find_matching_texture (checked under MatchSpec)

\* C1: the result is a member of the candidate set or the sentinel
\* "missing_texture.png"; no tier returns a constructed filename that is not
\* in the candidate set.
C1_ResultInCandidatesOrSentinel ==
    Returned => ret \in arg_textures \union {MissingTexture}

\* C1 witness: a prefixed-tier hit returned although the first constructed
\* form is not a candidate
C1_Witness ==
    /\ Returned
    /\ ~ExactHit
    /\ PrefixedForm(1) \notin arg_textures
    /\ PrefixedForm(2) \in arg_textures
    /\ ret = PrefixedForm(2)

\* C2: when the exact-match candidate (lower-cased name plus ".png") is in
\* the candidate set, it is the result, whatever else is in the set.
C2_ExactDominates == Returned /\ ExactHit => ret = ExactForm

\* C2 witness: exact hit returned while a later tier has a hit too, for a
\* name that needed lower-casing
C2_Witness ==
    /\ Returned
    /\ ExactHit
    /\ PrefixHit
    /\ arg_block_name # CalledName
    /\ ret = ExactForm

\* C3: the cascade commits to the first tier with a hit, in the order exact,
\* prefixed, polished, sub-phrase, fuzzy; in the prefixed tier the result is
\* the first form present in the fixed prefix order; {"stone_andesite.png"}
\* and "andesite" give "stone_andesite.png".
C3_FirstHitWins ==
    Returned =>
      /\ ExactHit => ret = ExactForm
      /\ ~ExactHit /\ PrefixHit =>
            \E k \in 1..Len(Prefixes) :
               /\ ret = PrefixedForm(k)
               /\ PrefixedForm(k) \in arg_textures
               /\ \A m \in 1..(k - 1) : PrefixedForm(m) \notin arg_textures
      /\ ~ExactHit /\ ~PrefixHit /\ PolishedHit =>
            \E k \in 1..3 :
               /\ ret = PolishedForms(CodeBase)[k]
               /\ ret \in arg_textures
               /\ \A m \in 1..(k - 1) :
                     PolishedForms(CodeBase)[m] \notin arg_textures
      /\ ~ExactHit /\ ~PrefixHit /\ ~PolishedHit /\ SubPhraseHit =>
            \E t \in SubPhraseTriples : ret = SubPhraseForm(t[1], t[2], t[3])
      /\ StrictMiss /\ FuzzyHits # {} => ret \in FuzzyHits
      /\ StrictMiss /\ FuzzyHits = {} => ret = MissingTexture
      /\ arg_block_name = "andesite" /\ arg_textures = {"stone_andesite.png"}
            => ret = "stone_andesite.png"

\* C3 witness: two prefixed forms are candidates, no exact one, and the
\* earlier one in the prefix order is returned
C3_Witness ==
    /\ Returned
    /\ ~ExactHit
    /\ \E k, m \in 1..Len(Prefixes) :
          /\ k < m
          /\ arg_textures = {PrefixedForm(k), PrefixedForm(m)}
          /\ ret = PrefixedForm(k)

ClaimedParts ==
    IF Contains("_", CalledName)
    THEN [k \in 1..NParts |-> normalize_name(CalledParts[k])]
    ELSE <<normalize_name(CalledName)>>

ClaimedQualifying ==
    {t \in arg_textures :
        \E k \in 1..Len(ClaimedParts) :
           /\ Len(ClaimedParts[k]) > 2
           /\ Contains(ClaimedParts[k], normalize_name(replace(t, ".png", "")))}

\* C4 (as claimed): when tiers 1-4 miss, the result is a shortest candidate
\* among those that contain ANY part of the name (the name split on "_", each
\* part normalized, longer than 2 characters) in their normalized name, and
\* the sentinel only when there is none.
C4_FuzzyAnyPart ==
    Returned /\ StrictMiss =>
       IF ClaimedQualifying = {} THEN ret = MissingTexture
       ELSE ret \in ShortestOf(ClaimedQualifying)

\* C8 (as claimed): the sentinel is returned only when every tier is
\* exhausted without a hit.
C8_SentinelOnlyWhenExhausted ==
    Returned /\ ret = MissingTexture => StrictMiss /\ FuzzyHits = {}

TokenBase ==
    join("_", SelectSeq(CalledParts, LAMBDA part : part # "polished"))

HasPolishedToken == \E k \in 1..NParts : CalledParts[k] = "polished"

\* C9 (as claimed): with tiers 1-2 missing and "polished" one of the
\* "_"-separated parts of the name, at any position, the base name is the
\* name without that part, and the first of stone_<base>_smooth.png,
\* <base>_smooth.png, polished_<base>.png in the candidate set is returned.
C9_PolishedTokenStripped ==
    Returned /\ ~ExactHit /\ ~PrefixHit /\ HasPolishedToken =>
       \A k \in 1..3 :
          /\ PolishedForms(TokenBase)[k] \in arg_textures
          /\ \A m \in 1..(k - 1) : PolishedForms(TokenBase)[m] \notin arg_textures
          => ret = PolishedForms(TokenBase)[k]

\* C10: with tiers 1-3 missing and more than one part, the result is the
\* first form equal to a candidate in the enumeration start ascending, end
\* ascending, then <join>.png, stone_<join>.png, planks_<join>.png; a
\* candidate that only contains the joined name is no hit of this tier, and
\* for a single part the tier contributes nothing.
C10_SubPhraseOrder ==
    Returned /\ ~ExactHit /\ ~PrefixHit /\ ~PolishedHit =>
       /\ SubPhraseHit =>
             \E t \in SubPhraseTriples :
                /\ \A u \in SubPhraseTriples : TripleRank(t) <= TripleRank(u)
                /\ ret = SubPhraseForm(t[1], t[2], t[3])
       /\ ~SubPhraseHit =>
             IF FuzzyHits = {} THEN ret = MissingTexture
             ELSE ret \in ShortestOf(FuzzyHits)
       /\ arg_block_name = "oak_log" /\ arg_textures = {"oak_log_top.png"}
             => ~SubPhraseHit /\ ret = "oak_log_top.png"

\* C10 witness: two sub-ranges have a candidate and the one enumerated first
\* is returned
C10_Witness ==
    /\ Returned
    /\ ~ExactHit /\ ~PrefixHit /\ ~PolishedHit
    /\ NParts > 1
    /\ \E t, u \in SubPhraseTriples :
          /\ TripleRank(t) < TripleRank(u)
          /\ arg_textures = {SubPhraseForm(t[1], t[2], t[3]),
                             SubPhraseForm(u[1], u[2], u[3])}
          /\ ret = SubPhraseForm(t[1], t[2], t[3])

----------------------------------------------------------------------------
\* The catalog updater: update_blocks_json driven by main()

SentinelUrl == "blocks/missing_texture.png"

ZeroStats ==
    [total_processed |-> 0, missing_found |-> 0, updated |-> 0, still_missing |-> 0]

\* A block of blocks.json.  name_is_str: the "name" value is a JSON string
\* (lower() raises AttributeError on any other value).  encodable: every
\* string of the block can be encoded as UTF-8 (a lone surrogate escape such
\* as "\ud800" is accepted by json.load and rejected by the file's encoder).
Block(name, url, name_is_str, encodable) ==
    [name |-> name, url |-> url, name_is_str |-> name_is_str,
     encodable |-> encodable]

BlockPool ==
    { Block("Andesite", SentinelUrl, TRUE, TRUE),
      Block("ab", SentinelUrl, TRUE, TRUE),
      Block("texture", SentinelUrl, TRUE, TRUE),
      Block("andesite", "blocks/stone.png", TRUE, TRUE),
      Block("", SentinelUrl, FALSE, TRUE),
      Block("ab", "blocks/stone.png", TRUE, FALSE) }

RECURSIVE SeqsUpTo(_, _)
\* the sequences over Pool of length at most n
SeqsUpTo(Pool, n) ==
    IF n = 0 THEN {<<>>}
    ELSE LET shorter == SeqsUpTo(Pool, n - 1)
         IN shorter \union {Append(q, b) : q \in shorter, b \in Pool}

\* the contents files.txt can have, as lines without their line terminator
FilesPool ==
    { [exists |-> FALSE, lines |-> <<>>],
      [exists |-> TRUE, lines |-> <<>>],
      [exists |-> TRUE, lines |-> <<"andesite.png">>],
      [exists |-> TRUE,
       lines |-> <<" stone_andesite.png ", "", "readme.txt", "andesite.png">>],
      [exists |-> TRUE,
       lines |-> <<"missing_texture.png", "another_texture.png">>] }

\* the contents blocks.json can have before the first run
BlocksJsonPool ==
    { [state |-> "missing", recs |-> <<>>],
      [state |-> "malformed", recs |-> <<>>] }
    \union {[state |-> "json", recs |-> q] : q \in SeqsUpTo(BlockPool, MaxRecords)}

\* load_available_textures: the set comprehension over the lines of the file
load_available_textures(lines) ==
    {strip(lines[k]) : k \in {m \in 1..Len(lines) : EndsWith(strip(lines[m]), ".png")}}

Init ==
    /\ arg_block_name = ""
    /\ arg_textures = {}
    /\ ret = ""
    /\ mpc = "idle"
    /\ files_txt \in FilesPool
    /\ blocks_json \in BlocksJsonPool
    /\ run_start_json = blocks_json
    /\ pc = "load_textures"
    /\ run = 1
    /\ available_textures = {}
    /\ order = <<>>
    /\ blocks_data = <<>>
    /\ idx = 0
    /\ stats = ZeroStats

\* line 106: load_available_textures(files_txt_path); open() raises
\* FileNotFoundError, which main() reports
LoadTextures ==
    /\ pc = "load_textures"
    /\ IF files_txt.exists
       THEN /\ available_textures' = load_available_textures(files_txt.lines)
            /\ order' \in Orders(available_textures')
            /\ pc' = "load_blocks"
       ELSE /\ pc' = "error"
            /\ UNCHANGED <<available_textures, order>>
    /\ UNCHANGED <<files_txt, blocks_json, run_start_json, run, blocks_data,
                   idx, stats>>
    /\ UNCHANGED mvars

\* lines 110-121: json.load(f) and the fresh counters; a missing file raises
\* FileNotFoundError, anything that is not a JSON document JSONDecodeError
LoadBlocks ==
    /\ pc = "load_blocks"
    /\ IF blocks_json.state = "json"
       THEN /\ blocks_data' = blocks_json.recs
            /\ stats' = ZeroStats
            /\ idx' = 1
            /\ pc' = "loop"
       ELSE /\ pc' = "error"
            /\ UNCHANGED <<blocks_data, stats, idx>>
    /\ UNCHANGED <<files_txt, blocks_json, run_start_json, run,
                   available_textures, order>>
    /\ UNCHANGED mvars

\* variant: an unmatched block is not counted
ProcessBlock_unmatched_uncounted ==
    /\ pc = "loop"
    /\ idx <= Len(blocks_data)
    /\ LET block == blocks_data[idx]
           seen == [stats EXCEPT !.total_processed = @ + 1]
       IN IF block.url = SentinelUrl
          THEN IF block.name_is_str
               THEN LET matching_texture ==
                           find_matching_texture(block.name, available_textures, order)
                        found == [seen EXCEPT !.missing_found = @ + 1]
                    IN /\ IF matching_texture # MissingTexture
                          THEN /\ blocks_data' =
                                     [blocks_data EXCEPT
                                        ![idx].url = "blocks/" \o matching_texture]
                               /\ stats' = [found EXCEPT !.updated = @ + 1]
                          ELSE /\ stats' = found
                               /\ UNCHANGED blocks_data
                       /\ idx' = idx + 1
                       /\ pc' = "loop"
               ELSE /\ stats' = [seen EXCEPT !.missing_found = @ + 1]
                    /\ pc' = "error"
                    /\ UNCHANGED <<blocks_data, idx>>
          ELSE /\ stats' = seen
               /\ idx' = idx + 1
               /\ pc' = "loop"
               /\ UNCHANGED blocks_data
    /\ UNCHANGED <<files_txt, blocks_json, run_start_json, run,
                   available_textures, order>>
    /\ UNCHANGED mvars

\* lines 124-142: one iteration of the for loop over blocks_data
ProcessBlock ==
    /\ pc = "loop"
    /\ idx <= Len(blocks_data)
    /\ LET block == blocks_data[idx]
           seen == [stats EXCEPT !.total_processed = @ + 1]
       IN IF block.url = SentinelUrl
          THEN IF block.name_is_str
               THEN LET matching_texture ==
                           find_matching_texture(block.name, available_textures, order)
                        found == [seen EXCEPT !.missing_found = @ + 1]
                    IN /\ IF matching_texture # MissingTexture
                          THEN /\ blocks_data' =
                                     [blocks_data EXCEPT
                                        ![idx].url = "blocks/" \o matching_texture]
                               /\ stats' = [found EXCEPT !.updated = @ + 1]
                          ELSE /\ stats' = [found EXCEPT !.still_missing = @ + 1]
                               /\ UNCHANGED blocks_data
                       /\ idx' = idx + 1
                       /\ pc' = "loop"
               ELSE \* block_name.lower() raises; main() reports the error
                    /\ stats' = [seen EXCEPT !.missing_found = @ + 1]
                    /\ pc' = "error"
                    /\ UNCHANGED <<blocks_data, idx>>
          ELSE /\ stats' = seen
               /\ idx' = idx + 1
               /\ pc' = "loop"
               /\ UNCHANGED blocks_data
    /\ UNCHANGED <<files_txt, blocks_json, run_start_json, run,
                   available_textures, order>>
    /\ UNCHANGED mvars

\* what is on disk when json.dump stops at the first block it cannot encode:
\* open(path, 'w') has emptied the file and the chunks written before the
\* failure are flushed when the with block closes it
partial_dump(data) ==
    LET bad == CHOOSE k \in 1..Len(data) :
                  ~data[k].encodable /\ \A m \in 1..(k - 1) : data[m].encodable
    IN [state |-> "partial", recs |-> SubSeq(data, 1, bad - 1)]

\* lines 144-148: open(blocks_json_path, 'w') and json.dump, after the loop
SaveJson ==
    /\ pc = "loop"
    /\ idx > Len(blocks_data)
    /\ IF \A k \in 1..Len(blocks_data) : blocks_data[k].encodable
       THEN /\ blocks_json' = [state |-> "json", recs |-> blocks_data]
            /\ pc' = "done"
       ELSE /\ blocks_json' = partial_dump(blocks_data)
            /\ pc' = "error"
    /\ UNCHANGED <<files_txt, run_start_json, run, available_textures, order,
                   blocks_data, idx, stats>>
    /\ UNCHANGED mvars

\* the script is started again on the files the previous run left
RunAgain ==
    /\ pc \in {"done", "error"}
    /\ run < MaxRuns
    /\ run' = run + 1
    /\ run_start_json' = blocks_json
    /\ pc' = "load_textures"
    /\ available_textures' = {}
    /\ order' = <<>>
    /\ blocks_data' = <<>>
    /\ idx' = 0
    /\ stats' = ZeroStats
    /\ UNCHANGED <<files_txt, blocks_json>>
    /\ UNCHANGED mvars

Next == LoadTextures \/ LoadBlocks \/ ProcessBlock \/ SaveJson \/ RunAgain

Spec == Init /\ [][Next]_vars

----------------------------------------------------------------------------
\* Claims about the updater (checked under Spec)

Urls(recs) == [k \in 1..Len(recs) |-> recs[k].url]

\* the blocks that had the sentinel URL when the current run loaded them
Eligible ==
    {k \in 1..Len(run_start_json.recs) : run_start_json.recs[k].url = SentinelUrl}

\* C5 (as claimed): a second successive run on the same candidate file
\* changes no url and its updated counter is 0.
C5_SecondRunChangesNothing ==
    run >= 2 /\ pc = "done" =>
       /\ Urls(blocks_json.recs) = Urls(run_start_json.recs)
       /\ stats.updated = 0

\* C6 (as claimed): in a run that ends in an error, blocks.json is what it
\* was before the run; it is rewritten as a whole or not written.
C6_ErrorLeavesFileUntouched == pc = "error" => blocks_json = run_start_json

ExampleBlocks ==
    << Block("Andesite", SentinelUrl, TRUE, TRUE),
       Block("ab", SentinelUrl, TRUE, TRUE),
       Block("andesite", "blocks/stone.png", TRUE, TRUE) >>

\* C7: during the pass updated + still_missing = missing_found <=
\* total_processed; after a successful run total_processed is the number of
\* blocks, missing_found the number that had the sentinel URL, and
\* still_missing the number of those for which the matcher returned the
\* sentinel; the three-block example ends with the counters 3, 2, 1, 1.
C7_Counters ==
    /\ pc \in {"loop", "done"} =>
          /\ stats.updated + stats.still_missing = stats.missing_found
          /\ stats.missing_found <= stats.total_processed
          /\ stats.total_processed = idx - 1
    /\ pc = "done" =>
          /\ stats.total_processed = Len(run_start_json.recs)
          /\ stats.missing_found = Cardinality(Eligible)
          /\ stats.still_missing =
                Cardinality({k \in Eligible :
                    find_matching_texture(run_start_json.recs[k].name,
                                          available_textures, order)
                       = MissingTexture})
          /\ stats.updated =
                Cardinality({k \in Eligible : blocks_json.recs[k].url # SentinelUrl})
    /\ pc = "done" /\ run_start_json.recs = ExampleBlocks
                   /\ available_textures = {"andesite.png"} =>
          stats = [total_processed |-> 3, missing_found |-> 2,
                   updated |-> 1, still_missing |-> 1]

\* C7 witness: the three-block example has been processed and saved
C7_Witness ==
    /\ pc = "done"
    /\ run_start_json.recs = ExampleBlocks
    /\ available_textures = {"andesite.png"}
    /\ Urls(blocks_json.recs) = <<"blocks/andesite.png", SentinelUrl, "blocks/stone.png">>
    /\ stats = [total_processed |-> 3, missing_found |-> 2,
                updated |-> 1, still_missing |-> 1]

====
